---------------------------- MODULE Spec2Model ----------------------------
(***************************************************************************)
(* Idle Monitor (Obsidian plugin), src/main.ts.                            *)
(*                                                                         *)
(* The plugin object (class IdleMonitor), the document's listener lists,   *)
(* the window's interval timers, the settings tab handlers and the         *)
(* pending saveSettings() promises are modelled as one state machine.      *)
(* Everything runs on the single JavaScript thread, so every action is one *)
(* run-to-completion piece of a handler: from its entry (or from the       *)
(* resumption of an await) to its next await or its return.                *)
(*                                                                         *)
(* Time is Date.now() in milliseconds, advanced by the environment.        *)
(* An interval timer fires when the event loop gets to it; the model lets  *)
(* a registered timer fire at any instant (a superset of the schedules the *)
(* host can produce) and keeps the period it was created with.             *)
(* saveData() is assumed to resolve; its completion order is arbitrary.    *)
(* updateStatusBarColor() only writes style properties and the gradient    *)
(* step of the status bar element; they are presentation and not modelled. *)
(***************************************************************************)
EXTENDS Integers, Sequences, FiniteSets, TLC

(* ----------------------------- bounds --------------------------------- *)

\* Date.now() runs over MaxSeconds whole seconds and, within each of them,
\* over the milliseconds 0..MaxTime.
MaxTime == 3
MaxSeconds == 2

\* At most MaxPending saveSettings() promises are unresolved at once.
MaxPending == 2

\* A long idle stretch lasts up to MaxHours hours (and 59 minutes 59.999 s).
MaxHours == 2

(* ------------------------ program constants --------------------------- *)

\* A field that has been declared but not assigned yet.
Undefined == -1

\* checkIdleIntervalId = null
Null == 0

DEFAULT_SETTINGS ==
  [ idleThreshold        |-> 30000,
    checkInterval        |-> 1000,
    includeMouseActivity |-> TRUE,
    textColor            |-> "",
    rainbowMode          |-> FALSE,
    timeFormat24Hour     |-> FALSE ]

SettingsFields == DOMAIN DEFAULT_SETTINGS

IGNORED_KEYS ==
  { "Shift", "Meta", "Control", "Alt", "CapsLock",
    "ArrowLeft", "ArrowRight", "ArrowUp", "ArrowDown",
    "Escape", "Tab", "Enter", "Backspace", "Delete", "Insert",
    "Home", "End", "PageUp", "PageDown",
    "F1", "F2", "F3", "F4", "F5", "F6", "F7", "F8", "F9", "F10", "F11", "F12" }

\* The two callbacks the plugin registers on document (bound once per instance).
detectKeyboardActivityBound == "detectKeyboardActivityBound"
resetActivityBound == "resetActivityBound"

\* Status bar texts. A text is a sequence of tokens; the element that does
\* not exist yet is the empty sequence.
NoElement == << >>
AllCaughtUp == << "All caught up!" >>

(* --------------------------- input domains ---------------------------- *)

\* Keys a keydown event can carry: the ignored ones and some others.
OtherKeys == { "a", "1", " ", "A", "f1", "shift", "Unidentified" }
Keys == IGNORED_KEYS \cup OtherKeys

KeyEvents ==
  [ key : Keys, metaKey : BOOLEAN, ctrlKey : BOOLEAN, altKey : BOOLEAN,
    shiftKey : BOOLEAN ]

Plain(key) ==
  [ key |-> key, metaKey |-> FALSE, ctrlKey |-> FALSE, altKey |-> FALSE,
    shiftKey |-> FALSE ]

\* The keydown events of the full machine: a letter, an ignored key, a
\* shortcut and a shifted letter. KeySpec below dispatches all of KeyEvents.
TypedEvents ==
  { Plain("a"), Plain("Enter"),
    [ Plain("a") EXCEPT !.ctrlKey = TRUE ],
    [ Plain("A") EXCEPT !.shiftKey = TRUE ] }

\* Texts typed into the numeric fields, as sequences of characters.
Texts == { << >>, << "a", "b", "c" >>, << "1", "x" >>, << "-", "1" >> }

\* What loadData() can resolve to: nothing stored (null), or an object with
\* some of the fields.
StoredData ==
  { << >>,
    [ idleThreshold |-> 1, includeMouseActivity |-> FALSE ] }

\* A data.json edited by hand: idleThreshold holds the string "abc".
MalformedData == { [ idleThreshold |-> << "a", "b", "c" >> ] }

TextColors == { "", "red" }

\* Long stretches of time without a look at the clock, in milliseconds.
Durations ==
  { 3600000 * h + 60000 * m + 1000 * s + ms :
      h \in 0..MaxHours, m \in { 0, 1, 2, 59 }, s \in { 0, 1, 2, 59 }, ms \in { 0, 999 } }

(* ------------------------------ state --------------------------------- *)

VARIABLES
  phase,                \* "constructed", "loading" (onload awaits loadSettings), "loaded", "unloaded"
  settings,             \* this.settings
  lastActivityTime,     \* this.lastActivityTime
  checkIdleIntervalId,  \* this.checkIdleIntervalId
  statusBarItem,        \* text of this.statusBarItem, NoElement before it is created
  keydownListeners,     \* document's 'keydown' listener list
  mousemoveListeners,   \* document's 'mousemove' listener list
  intervals,            \* the window's running interval timers: [id, period]
  pendingSaves,         \* continuation kind -> number of unresolved saveSettings() awaited by it
  notice,               \* the last Notice shown
  resetCalls,           \* resetActivity calls made by the last dispatched input event
  now                   \* Date.now()

vars == << phase, settings, lastActivityTime, checkIdleIntervalId, statusBarItem,
           keydownListeners, mousemoveListeners, intervals, pendingSaves,
           notice, resetCalls, now >>

\* What runs after `await this.plugin.saveSettings()` in an onChange handler.
Continuations == { "return", "detectActivity", "updateStatusBarColor" }

NoNotice == << >>


(* --------------------------- host primitives -------------------------- *)

RECURSIVE RemoveListener(_, _)
\* EventTarget.removeEventListener: drops the registration of this callback.
RemoveListener(list, callback) ==
  IF list = << >> THEN << >>
  ELSE IF Head(list) = callback THEN RemoveListener(Tail(list), callback)
  ELSE << Head(list) >> \o RemoveListener(Tail(list), callback)

\* EventTarget.addEventListener: a callback already registered for the event
\* is not registered a second time.
AddListener(list, callback) ==
  IF \E i \in 1..Len(list) : list[i] = callback THEN list ELSE Append(list, callback)

\* window.clearInterval
ClearInterval(timers, id) == { t \in timers : t.id # id }

\* The handle window.setInterval returns: distinct from every running timer's
\* and from the one the plugin still holds.
FreshId(timers, held) ==
  CHOOSE i \in 1..(Cardinality(timers) + 2) :
    /\ i # held
    /\ \A t \in timers : t.id # i
    /\ \A j \in 1..(i - 1) : j = held \/ \E t \in timers : t.id = j

\* HTMLElement.setText on this.statusBarItem; on the element that does not
\* exist the call throws and nothing is written.
SetText(element, text) == IF element = NoElement THEN element ELSE text

(* ------------------------------ parseInt ------------------------------ *)

DigitValue ==
  [ c \in { "0", "1", "2", "3", "4", "5", "6", "7", "8", "9" } |->
      CASE c = "0" -> 0 [] c = "1" -> 1 [] c = "2" -> 2 [] c = "3" -> 3
        [] c = "4" -> 4 [] c = "5" -> 5 [] c = "6" -> 6 [] c = "7" -> 7
        [] c = "8" -> 8 [] c = "9" -> 9 ]

\* A parse result is << n >> for the number n, or NaN.
NaN == << >>

RECURSIVE SkipWhiteSpace(_)
SkipWhiteSpace(str) ==
  IF str # << >> /\ Head(str) = " " THEN SkipWhiteSpace(Tail(str)) ELSE str

RECURSIVE DigitPrefix(_)
DigitPrefix(str) ==
  IF str = << >> \/ Head(str) \notin DOMAIN DigitValue THEN << >>
  ELSE << Head(str) >> \o DigitPrefix(Tail(str))

RECURSIVE DigitsToNumber(_, _)
DigitsToNumber(digits, acc) ==
  IF digits = << >> THEN acc
  ELSE DigitsToNumber(Tail(digits), acc * 10 + DigitValue[Head(digits)])

\* parseInt(value, 10): leading white space, an optional sign, then the
\* longest run of decimal digits; NaN when there is no digit.
parseInt(value) ==
  LET str    == SkipWhiteSpace(value)
      signed == str # << >> /\ Head(str) \in { "+", "-" }
      digits == DigitPrefix(IF signed THEN Tail(str) ELSE str)
      n      == DigitsToNumber(digits, 0)
  IN  IF digits = << >> THEN NaN
      ELSE IF signed /\ Head(str) = "-" THEN << -n >> ELSE << n >>

\* Number.isNaN(parsedValue) ? fallback : parsedValue
\* The fallback of `Number(value) || 0`: zero, whatever the default is.
ParsedOrDefault_Zero(value, fallback) ==
  LET parsedValue == parseInt(value)
  IN  IF parsedValue = NaN THEN 0 ELSE parsedValue[1]

ParsedOrDefault(value, fallback) ==
  LET parsedValue == parseInt(value)
  IN  IF parsedValue = NaN THEN fallback ELSE parsedValue[1]

(* --------------------------- pure functions --------------------------- *)

\* IsRealTyping with the shift state taken for a shortcut modifier too.
IsRealTyping_ShiftSuppresses(evt) ==
  /\ ~(evt.metaKey \/ evt.ctrlKey \/ evt.altKey \/ evt.shiftKey)
  /\ evt.key \notin IGNORED_KEYS

\* The test at the head of detectKeyboardActivity: the event is real typing.
IsRealTyping(evt) ==
  /\ ~(evt.metaKey \/ evt.ctrlKey \/ evt.altKey)
  /\ evt.key \notin IGNORED_KEYS

\* ExceedsThreshold with the comparison not strict.
ExceedsThreshold_AtLeast(idleTime, idleThreshold) == idleTime >= idleThreshold

\* ExceedsThreshold with the comparison the wrong way round.
ExceedsThreshold_Reversed(idleTime, idleThreshold) == idleTime < idleThreshold

\* ExceedsThreshold with the threshold taken for seconds.
ExceedsThreshold_InSeconds(idleTime, idleThreshold) == idleTime > idleThreshold \div 1000

\* The comparison of the poll callback.
\* The comparison against the threshold the plugin started with.
ExceedsThreshold_AgainstDefault(idleTime, idleThreshold) ==
  idleTime > DEFAULT_SETTINGS.idleThreshold

ExceedsThreshold(idleTime, idleThreshold) == idleTime > idleThreshold

\* Counted with the plural kept for counts above one only.
Counted_PluralAboveOne(n, unit, units) == << n, IF n > 1 THEN units ELSE unit >>

\* `${n} ${unit}${n !== 1 ? 's' : ''}` as two tokens.
Counted(n, unit, units) == << n, IF n # 1 THEN units ELSE unit >>

\* The text updateIdleStatus writes.
IdleText(idleTime) ==
  LET totalSeconds == idleTime \div 1000
      hours        == totalSeconds \div 3600
      minutes      == (totalSeconds % 3600) \div 60
      seconds      == totalSeconds % 60
  IN  << "Idle for" >>
        \o (IF hours > 0 THEN Counted(hours, "hour", "hours") ELSE << >>)
        \o (IF minutes > 0 \/ hours > 0 THEN Counted(minutes, "minute", "minutes") ELSE << >>)
        \o Counted(seconds, "second", "seconds")

\* loadSettings: Object.assign({}, DEFAULT_SETTINGS, data)
MergedSettings(data) ==
  [ f \in SettingsFields |-> IF f \in DOMAIN data THEN data[f] ELSE DEFAULT_SETTINGS[f] ]

\* toLocaleTimeString with 2-digit hour, minute and second, in UTC:
\* << hour, minute, second, day period >>.
ClockText(epochMs, hour12) ==
  LET secondOfDay == (epochMs \div 1000) % 86400
      hour24      == secondOfDay \div 3600
      minute      == (secondOfDay % 3600) \div 60
      second      == secondOfDay % 60
  IN  IF hour12
      THEN << IF hour24 % 12 = 0 THEN 12 ELSE hour24 % 12, minute, second,
              IF hour24 < 12 THEN "AM" ELSE "PM" >>
      ELSE << hour24, minute, second, "" >>

(* --------------------------- status queries --------------------------- *)

IsActiveText(text) == text = AllCaughtUp
IsIdleText(text) == Len(text) >= 3 /\ text[1] = "Idle for"

PendingCount ==
  pendingSaves["return"] + pendingSaves["detectActivity"]
    + pendingSaves["updateStatusBarColor"]

(* -------------------------- plugin methods ---------------------------- *)

\* resetActivity that leaves the status text to the next poll tick.
resetActivity_TimestampOnly ==
  /\ lastActivityTime' = now
  /\ UNCHANGED statusBarItem

\* resetActivity(): the timestamp and the status text, in one call.
resetActivity ==
  /\ lastActivityTime' = now
  /\ statusBarItem' = SetText(statusBarItem, AllCaughtUp)

\* PreviousCleared that forgets to clear: the old timer keeps running.
PreviousCleared_Leak(timers, id) == timers

\* `if (this.checkIdleIntervalId !== null) clearInterval(...)` of detectActivity.
PreviousCleared(timers, id) ==
  IF id # Null THEN ClearInterval(timers, id) ELSE timers

\* The mousemove list after detectActivity's remove and conditional add.
\* The mouse listener added when the setting is on and never removed.
MouseListenersFor_NoRemoval(list, includeMouseActivity) ==
  IF includeMouseActivity THEN AddListener(list, resetActivityBound) ELSE list

MouseListenersFor(list, includeMouseActivity) ==
  LET removed == RemoveListener(list, resetActivityBound)
  IN  IF includeMouseActivity THEN AddListener(removed, resetActivityBound) ELSE removed

\* detectActivity(), reading the settings s that this.settings holds when
\* it is called.
detectActivity(s) ==
  LET cleared == PreviousCleared(intervals, checkIdleIntervalId)
      id      == FreshId(cleared, checkIdleIntervalId)
  IN  /\ keydownListeners' =
           AddListener(RemoveListener(keydownListeners, detectKeyboardActivityBound),
                       detectKeyboardActivityBound)
      /\ mousemoveListeners' = MouseListenersFor(mousemoveListeners, s.includeMouseActivity)
      /\ intervals' = cleared \cup { [ id |-> id, period |-> s.checkInterval ] }
      /\ checkIdleIntervalId' = id

\* `await this.plugin.saveSettings()`: the handler is suspended until
\* saveData resolves and then goes on with continuation k.
AwaitSave(k) ==
  /\ PendingCount < MaxPending
  /\ pendingSaves' = [ pendingSaves EXCEPT ![k] = @ + 1 ]

(* ------------------------------ actions ------------------------------- *)

Init ==
  /\ phase = "constructed"
  /\ settings = [ f \in SettingsFields |-> Undefined ]
  /\ lastActivityTime = Undefined
  /\ checkIdleIntervalId = Null
  /\ statusBarItem = NoElement
  /\ keydownListeners = << >>
  /\ mousemoveListeners = << >>
  /\ intervals = { }
  /\ pendingSaves = [ k \in Continuations |-> 0 ]
  /\ notice = NoNotice
  /\ resetCalls = 0
  /\ now = 0

\* onload() up to `await this.loadSettings()`.
OnloadBegin ==
  /\ phase = "constructed"
  /\ phase' = "loading"
  /\ UNCHANGED << settings, lastActivityTime, checkIdleIntervalId, statusBarItem,
                  keydownListeners, mousemoveListeners, intervals, pendingSaves,
                  notice, resetCalls, now >>

\* onload() from the resumption of loadSettings to its end.
\* An onload that registers the listeners and the timer and stops there.
OnloadResume_NoStatusBar(data) ==
  /\ phase = "loading"
  /\ settings' = MergedSettings(data)
  /\ lastActivityTime' = now
  /\ detectActivity(settings')
  /\ phase' = "loaded"
  /\ UNCHANGED << statusBarItem, pendingSaves, notice, resetCalls, now >>

OnloadResume(data) ==
  /\ phase = "loading"
  /\ settings' = MergedSettings(data)
  /\ lastActivityTime' = now
  /\ detectActivity(settings')
  /\ statusBarItem' = AllCaughtUp
  /\ phase' = "loaded"
  /\ UNCHANGED << pendingSaves, notice, resetCalls, now >>

\* onunload()
Onunload ==
  /\ phase = "loaded"
  /\ phase' = "unloaded"
  /\ keydownListeners' = RemoveListener(keydownListeners, detectKeyboardActivityBound)
  /\ mousemoveListeners' = RemoveListener(mousemoveListeners, resetActivityBound)
  /\ intervals' = IF checkIdleIntervalId # Null
                  THEN ClearInterval(intervals, checkIdleIntervalId)
                  ELSE intervals
  /\ checkIdleIntervalId' = Null
  /\ UNCHANGED << settings, lastActivityTime, statusBarItem, pendingSaves,
                  notice, resetCalls, now >>

\* A keydown event on document: every registered listener runs
\* detectKeyboardActivity(evt).
KeyDown(evt) ==
  /\ resetCalls' = IF IsRealTyping(evt) THEN Len(keydownListeners) ELSE 0
  /\ IF resetCalls' > 0
     THEN resetActivity
     ELSE UNCHANGED << lastActivityTime, statusBarItem >>
  /\ UNCHANGED << phase, settings, checkIdleIntervalId, keydownListeners,
                  mousemoveListeners, intervals, pendingSaves, notice, now >>

\* A mousemove event on document: every registered listener runs resetActivity().
MouseMove ==
  /\ resetCalls' = Len(mousemoveListeners)
  /\ IF resetCalls' > 0
     THEN resetActivity
     ELSE UNCHANGED << lastActivityTime, statusBarItem >>
  /\ UNCHANGED << phase, settings, checkIdleIntervalId, keydownListeners,
                  mousemoveListeners, intervals, pendingSaves, notice, now >>

\* The callback given to setInterval, for the running timer t.
PollTick(t) ==
  /\ t \in intervals
  /\ LET idleTime == now - lastActivityTime
     IN  statusBarItem' =
           IF ExceedsThreshold(idleTime, settings.idleThreshold)
           THEN SetText(statusBarItem, IdleText(idleTime))
           ELSE SetText(statusBarItem, AllCaughtUp)
  /\ UNCHANGED << phase, settings, lastActivityTime, checkIdleIntervalId,
                  keydownListeners, mousemoveListeners, intervals, pendingSaves,
                  notice, resetCalls, now >>

\* showLastActivityTime(), the mouseenter listener of the status bar item.
\* A hover that is itself taken for activity.
ShowLastActivityTime_CountsAsActivity ==
  /\ phase = "loaded"
  /\ notice' = << "You stopped typing at:" >>
                 \o ClockText(lastActivityTime, ~settings.timeFormat24Hour)
  /\ resetActivity
  /\ UNCHANGED << phase, settings, checkIdleIntervalId, keydownListeners,
                  mousemoveListeners, intervals, pendingSaves, resetCalls, now >>

ShowLastActivityTime ==
  /\ phase = "loaded"
  /\ notice' = << "You stopped typing at:" >>
                 \o ClockText(lastActivityTime, ~settings.timeFormat24Hour)
  /\ UNCHANGED << phase, settings, lastActivityTime, checkIdleIntervalId, statusBarItem,
                  keydownListeners, mousemoveListeners, intervals, pendingSaves,
                  resetCalls, now >>

\* Idle Time Threshold onChange, up to its await.
EditIdleThreshold(value) ==
  /\ phase = "loaded"
  /\ settings' = [ settings EXCEPT
                     !.idleThreshold = ParsedOrDefault(value, DEFAULT_SETTINGS.idleThreshold) ]
  /\ AwaitSave("return")
  /\ UNCHANGED << phase, lastActivityTime, checkIdleIntervalId, statusBarItem,
                  keydownListeners, mousemoveListeners, intervals, notice,
                  resetCalls, now >>

\* Check Interval onChange, up to its await.
\* A Check Interval edit that restarts the registration for the new period.
EditCheckInterval_Restarts(value) ==
  /\ phase = "loaded"
  /\ settings' = [ settings EXCEPT
                     !.checkInterval = ParsedOrDefault(value, DEFAULT_SETTINGS.checkInterval) ]
  /\ AwaitSave("return")
  /\ detectActivity(settings')
  /\ UNCHANGED << phase, lastActivityTime, statusBarItem, notice, resetCalls, now >>

EditCheckInterval(value) ==
  /\ phase = "loaded"
  /\ settings' = [ settings EXCEPT
                     !.checkInterval = ParsedOrDefault(value, DEFAULT_SETTINGS.checkInterval) ]
  /\ AwaitSave("return")
  /\ UNCHANGED << phase, lastActivityTime, checkIdleIntervalId, statusBarItem,
                  keydownListeners, mousemoveListeners, intervals, notice,
                  resetCalls, now >>

\* Include Mouse Activity onChange, up to its await.
EditIncludeMouseActivity(value) ==
  /\ phase = "loaded"
  /\ settings' = [ settings EXCEPT !.includeMouseActivity = value ]
  /\ AwaitSave("detectActivity")
  /\ UNCHANGED << phase, lastActivityTime, checkIdleIntervalId, statusBarItem,
                  keydownListeners, mousemoveListeners, intervals, notice,
                  resetCalls, now >>

\* Text Color onChange, up to its await.
EditTextColor(value) ==
  /\ phase = "loaded"
  /\ settings' = [ settings EXCEPT !.textColor = value ]
  /\ AwaitSave("updateStatusBarColor")
  /\ UNCHANGED << phase, lastActivityTime, checkIdleIntervalId, statusBarItem,
                  keydownListeners, mousemoveListeners, intervals, notice,
                  resetCalls, now >>

\* Rainbow Mode onChange, up to its await.
EditRainbowMode(value) ==
  /\ phase = "loaded"
  /\ settings' = [ settings EXCEPT !.rainbowMode = value ]
  /\ AwaitSave("updateStatusBarColor")
  /\ UNCHANGED << phase, lastActivityTime, checkIdleIntervalId, statusBarItem,
                  keydownListeners, mousemoveListeners, intervals, notice,
                  resetCalls, now >>

\* Time Format (24-hour) onChange, up to its await.
EditTimeFormat24Hour(value) ==
  /\ phase = "loaded"
  /\ settings' = [ settings EXCEPT !.timeFormat24Hour = value ]
  /\ AwaitSave("return")
  /\ UNCHANGED << phase, lastActivityTime, checkIdleIntervalId, statusBarItem,
                  keydownListeners, mousemoveListeners, intervals, notice,
                  resetCalls, now >>

\* saveData resolves for a handler suspended with continuation k, and the
\* handler runs to its end.
\* A restart that also puts the status back to 'All caught up!'.
SaveDone_ActiveOnRestart(k) ==
  /\ pendingSaves[k] > 0
  /\ pendingSaves' = [ pendingSaves EXCEPT ![k] = @ - 1 ]
  /\ IF k = "detectActivity"
     THEN detectActivity(settings) /\ statusBarItem' = SetText(statusBarItem, AllCaughtUp)
     ELSE UNCHANGED << keydownListeners, mousemoveListeners, intervals,
                       checkIdleIntervalId, statusBarItem >>
  /\ UNCHANGED << phase, settings, lastActivityTime, notice, resetCalls, now >>

SaveDone(k) ==
  /\ pendingSaves[k] > 0
  /\ pendingSaves' = [ pendingSaves EXCEPT ![k] = @ - 1 ]
  /\ IF k = "detectActivity"
     THEN detectActivity(settings)
     ELSE UNCHANGED << keydownListeners, mousemoveListeners, intervals,
                       checkIdleIntervalId >>
  /\ UNCHANGED << phase, settings, lastActivityTime, statusBarItem, notice,
                  resetCalls, now >>

\* The clock moves on by d milliseconds.
AdvanceTime(d) ==
  /\ (now + d) % 1000 <= MaxTime
  /\ (now + d) \div 1000 <= MaxSeconds
  /\ now' = now + d
  /\ UNCHANGED << phase, settings, lastActivityTime, checkIdleIntervalId, statusBarItem,
                  keydownListeners, mousemoveListeners, intervals, pendingSaves,
                  notice, resetCalls >>

\* The clock moves on by a long stretch d, once.
Sleep(d) ==
  /\ now < 1000
  /\ d > 0
  /\ now' = now + d
  /\ UNCHANGED << phase, settings, lastActivityTime, checkIdleIntervalId, statusBarItem,
                  keydownListeners, mousemoveListeners, intervals, pendingSaves,
                  notice, resetCalls >>

\* A handler of the tracker runs, or the clock moves.
Next ==
  \/ OnloadBegin
  \/ \E data \in StoredData : OnloadResume(data)
  \/ Onunload
  \/ \E evt \in TypedEvents : KeyDown(evt)
  \/ MouseMove
  \/ \E t \in intervals : PollTick(t)
  \/ ShowLastActivityTime
  \/ \E value \in Texts : EditIdleThreshold(value)
  \/ \E value \in Texts : EditCheckInterval(value)
  \/ \E value \in BOOLEAN : EditIncludeMouseActivity(value)
  \/ \E k \in Continuations : SaveDone(k)
  \/ AdvanceTime(1)

\* The tracker, followed millisecond by millisecond: lifecycle, input events, the poll timer, the clock, the hover
\* query and the edits of the three settings the tracker reads.
Spec == Init /\ [][Next]_vars

\* The same with the edits of the settings that only the presentation reads.
FullNext ==
  \/ Next
  \/ \E value \in TextColors : EditTextColor(value)
  \/ \E value \in BOOLEAN : EditRainbowMode(value)
  \/ \E value \in BOOLEAN : EditTimeFormat24Hour(value)

FullSpec == Init /\ [][FullNext]_vars

\* The keyboard filter on its own: the plugin's life, the clock, the poll
\* timer, the hover query, and keydown events with every key and every
\* modifier combination.
KeyNext ==
  \/ OnloadBegin
  \/ \E data \in StoredData : OnloadResume(data)
  \/ Onunload
  \/ \E evt \in KeyEvents : KeyDown(evt)
  \/ \E t \in intervals : PollTick(t)
  \/ ShowLastActivityTime
  \/ AdvanceTime(1)

KeySpec == Init /\ [][KeyNext]_vars

\* The tracker over a longer time: the clock also moves by whole seconds, the
\* timer keeps firing and the clock keeps moving (up to the end of the
\* modelled time).
LiveNext ==
  \/ OnloadBegin
  \/ \E data \in StoredData : OnloadResume(data)
  \/ Onunload
  \/ \E evt \in TypedEvents : KeyDown(evt)
  \/ MouseMove
  \/ \E t \in intervals : PollTick(t)
  \/ \E value \in Texts : EditIdleThreshold(value)
  \/ \E value \in BOOLEAN : EditIncludeMouseActivity(value)
  \/ \E k \in Continuations : SaveDone(k)
  \/ \E d \in { 1, 1000 } : AdvanceTime(d)

LiveSpec ==
  /\ Init
  /\ [][LiveNext]_vars
  /\ WF_vars(\E t \in intervals : PollTick(t))
  /\ WF_vars(AdvanceTime(1))
  /\ WF_vars(AdvanceTime(1000))

\* Loading: the stored data may be malformed; the plugin then serves input
\* events and the hover query until it is unloaded.
LoadNext ==
  \/ OnloadBegin
  \/ \E data \in StoredData : OnloadResume(data)
  \/ \E data \in MalformedData : OnloadResume(data)
  \/ Onunload
  \/ \E evt \in TypedEvents : KeyDown(evt)
  \/ MouseMove
  \/ ShowLastActivityTime
  \/ AdvanceTime(1)

LoadSpec == Init /\ [][LoadNext]_vars

\* The settings tab: every field is edited and the saves resolve in any
\* order, while the plugin is loaded and unloaded and the clock runs.
TabNext ==
  \/ OnloadBegin
  \/ \E data \in StoredData : OnloadResume(data)
  \/ Onunload
  \/ \E value \in Texts : EditIdleThreshold(value)
  \/ \E value \in Texts : EditCheckInterval(value)
  \/ \E value \in BOOLEAN : EditIncludeMouseActivity(value)
  \/ \E value \in TextColors : EditTextColor(value)
  \/ \E value \in BOOLEAN : EditRainbowMode(value)
  \/ \E value \in BOOLEAN : EditTimeFormat24Hour(value)
  \/ \E k \in Continuations : SaveDone(k)
  \/ AdvanceTime(1)

TabSpec == Init /\ [][TabNext]_vars

\* The hover query, in either time format, between input events and poll
\* ticks that are seconds apart.
HoverNext ==
  \/ OnloadBegin
  \/ \E data \in StoredData : OnloadResume(data)
  \/ Onunload
  \/ \E evt \in TypedEvents : KeyDown(evt)
  \/ MouseMove
  \/ \E t \in intervals : PollTick(t)
  \/ ShowLastActivityTime
  \/ \E value \in BOOLEAN : EditTimeFormat24Hour(value)
  \/ \E k \in Continuations : SaveDone(k)
  \/ \E d \in { 1, 1000 } : AdvanceTime(d)

HoverSpec == Init /\ [][HoverNext]_vars

\* The two numeric text fields: texts are typed into them and the saves
\* resolve, while the plugin is loaded and unloaded and the clock runs.
FieldNext ==
  \/ OnloadBegin
  \/ \E data \in StoredData : OnloadResume(data)
  \/ Onunload
  \/ \E value \in Texts : EditIdleThreshold(value)
  \/ \E value \in Texts : EditCheckInterval(value)
  \/ \E k \in Continuations : SaveDone(k)
  \/ AdvanceTime(1)

FieldSpec == Init /\ [][FieldNext]_vars

\* The idle report over long stretches: the plugin is loaded, its threshold
\* edited, and the poll timer fires after a stretch of up to MaxHours hours.
FormatNext ==
  \/ OnloadBegin
  \/ \E data \in StoredData : OnloadResume(data)
  \/ \E value \in Texts : EditIdleThreshold(value)
  \/ \E k \in Continuations : SaveDone(k)
  \/ \E t \in intervals : PollTick(t)
  \/ \E d \in Durations : Sleep(d)

FormatSpec == Init /\ [][FormatNext]_vars

(* ------------------------------ claims -------------------------------- *)

Loaded == phase = "loaded"
Elapsed == now - lastActivityTime
SomePollTick == \E t \in intervals : PollTick(t)
SomeInputEvent == (\E evt \in TypedEvents : KeyDown(evt)) \/ MouseMove

EndOfTime == 1000 * MaxSeconds + MaxTime

\* The duration an 'Idle for ...' text reports, in seconds.
ReportedSeconds(text) ==
  CASE Len(text) = 3 -> text[2]
    [] Len(text) = 5 -> 60 * text[2] + text[4]
    [] Len(text) = 7 -> 3600 * text[2] + 60 * text[4] + text[6]

\* A step in which the plugin stays loaded or unloaded as it was, no setting
\* is edited and no input event calls resetActivity.
C1_QuietStep ==
  /\ phase' = phase
  /\ settings' = settings
  /\ ~(resetCalls' > 0 /\ SomeInputEvent)

\* C1: if from some point on the plugin stays loaded, no setting is edited
\* and no qualifying activity occurs, then (the timer firing and the clock
\* moving) the status eventually is 'Idle for ...' and stays so, provided the
\* modelled time lasts beyond lastActivityTime + idleThreshold; and from one
\* Idle report to the next the reported duration never decreases.
C1_EventuallyIdle ==
  /\ <>[][C1_QuietStep]_vars =>
       <>[](Loaded /\ lastActivityTime + settings.idleThreshold < EndOfTime
              => IsIdleText(statusBarItem))
  /\ [][ IsIdleText(statusBarItem) /\ IsIdleText(statusBarItem') =>
           ReportedSeconds(statusBarItem') >= ReportedSeconds(statusBarItem) ]_vars

\* The tracker reports a whole second or more of idleness.
C1_Witness ==
  /\ Loaded
  /\ IsIdleText(statusBarItem)
  /\ ReportedSeconds(statusBarItem) >= 1
  /\ now = EndOfTime

\* C2: a poll tick reports Idle iff now - lastActivityTime is strictly greater
\* than settings.idleThreshold, and 'All caught up!' otherwise; so at
\* elapsed = threshold it reports Active and at threshold + 1 Idle.
C2_StrictThreshold ==
  [][ SomePollTick =>
        /\ IsIdleText(statusBarItem') <=> Elapsed > settings.idleThreshold
        /\ IsActiveText(statusBarItem') <=> Elapsed <= settings.idleThreshold
        /\ Elapsed = settings.idleThreshold => statusBarItem' = AllCaughtUp
        /\ Elapsed = settings.idleThreshold + 1 => statusBarItem' = IdleText(Elapsed)
    ]_vars

\* The status is Idle one millisecond past the threshold.
C2_Witness ==
  /\ Loaded
  /\ IsIdleText(statusBarItem)
  /\ Elapsed = settings.idleThreshold + 1

\* C3: an input event that calls resetActivity leaves, in that same step,
\* lastActivityTime equal to the current time and the status 'All caught up!',
\* whatever the status was before.
C3_ResetImmediate ==
  [][ resetCalls' > 0 /\ SomeInputEvent =>
        /\ lastActivityTime' = now'
        /\ statusBarItem' = AllCaughtUp
    ]_vars

\* An input event has reset the clock after time had passed since load.
C3_Witness ==
  /\ resetCalls > 0
  /\ lastActivityTime = now
  /\ now > 0
  /\ statusBarItem = AllCaughtUp

\* C4: the status goes from 'All caught up!' to 'Idle for ...' only in a
\* poll tick at which now - lastActivityTime exceeds settings.idleThreshold.
C4_IdleOnlyByPollTick ==
  [][ IsActiveText(statusBarItem) /\ IsIdleText(statusBarItem') =>
        /\ SomePollTick
        /\ Elapsed > settings.idleThreshold
    ]_vars

\* The tracker is Idle while loaded, its timer still running.
C4_Witness ==
  /\ Loaded
  /\ IsIdleText(statusBarItem)
  /\ intervals # { }

\* C5: a poll tick that runs at the very instant of the latest resetActivity
\* reports Active.
C5_ResetThenPollIsActive ==
  [][ SomePollTick /\ resetCalls > 0 /\ lastActivityTime = now =>
        statusBarItem' = AllCaughtUp
    ]_vars

\* C6: at most one keydown listener, one mousemove listener and one running
\* interval are registered, whatever loads, restarts and unloads happened;
\* one key event calls resetActivity at most once; and a restart leaves
\* exactly one keydown listener and one interval (and one mousemove listener
\* if the setting asks for it).
C6_SingleRegistration ==
  /\ [] /\ Len(keydownListeners) <= 1
        /\ Len(mousemoveListeners) <= 1
        /\ Cardinality(intervals) <= 1
        /\ resetCalls <= 1
  /\ [][ SaveDone("detectActivity") =>
           /\ Len(keydownListeners') = 1
           /\ Cardinality(intervals') = 1
           /\ Len(mousemoveListeners') = (IF settings.includeMouseActivity THEN 1 ELSE 0)
       ]_vars

\* detectActivity has run a second time (the interval handle is the second
\* one) and a key event then called resetActivity once.
C6_Witness ==
  /\ Loaded
  /\ checkIdleIntervalId = 2
  /\ Cardinality(intervals) = 1
  /\ Len(keydownListeners) = 1
  /\ resetCalls = 1

\* C7: once onunload has returned, nothing is registered that could run a
\* poll tick or call resetActivity.
C7_NothingAfterUnload ==
  phase = "unloaded" =>
    /\ keydownListeners = << >>
    /\ mousemoveListeners = << >>
    /\ intervals = { }

\* C8: while the plugin is loaded, the mousemove listener is registered iff
\* settings.includeMouseActivity is true.
C8_MouseListenerIffSetting ==
  Loaded => (Len(mousemoveListeners) > 0 <=> settings.includeMouseActivity)

\* C9: while the plugin is loaded, the running poll timer has the period
\* settings.checkInterval.
C9_PeriodIsCheckInterval ==
  Loaded => \A t \in intervals : t.period = settings.checkInterval

\* The keys the filter is said to ignore.
C10_IgnoredKeys ==
  { "ArrowLeft", "ArrowRight", "ArrowUp", "ArrowDown", "Escape", "Tab", "Enter",
    "Backspace", "Delete", "Insert", "Home", "End", "PageUp", "PageDown",
    "CapsLock", "Shift", "Meta", "Control", "Alt",
    "F1", "F2", "F3", "F4", "F5", "F6", "F7", "F8", "F9", "F10", "F11", "F12" }

\* C10: a keydown event calls resetActivity iff none of metaKey, ctrlKey,
\* altKey is set and its key is not one of the ignored keys; shiftKey plays
\* no part, and 'a', '1' and ' ' qualify.
C10_KeyFilter ==
  [][ Len(keydownListeners) = 1 =>
        \A evt \in KeyEvents :
          KeyDown(evt) =>
            /\ resetCalls' = 1 <=>
                 /\ ~evt.metaKey /\ ~evt.ctrlKey /\ ~evt.altKey
                 /\ evt.key \notin C10_IgnoredKeys
            /\ resetCalls' \in { 0, 1 }
            /\ evt.key \in { "a", "1", " " } /\ ~evt.metaKey /\ ~evt.ctrlKey /\ ~evt.altKey
                 => resetCalls' = 1 /\ lastActivityTime' = now
    ]_vars

\* A key event has called resetActivity, some time after load.
C10_Witness ==
  /\ Loaded
  /\ Len(keydownListeners) = 1
  /\ resetCalls = 1
  /\ lastActivityTime = now
  /\ now > 1

\* The unit words of an 'Idle for ...' text (its tokens 3, 5, 7).
C11_Words(text) == { text[i] : i \in { j \in 3..Len(text) : j % 2 = 1 } }

\* The word that goes with the count n.
C11_Word(n, unit, units) == IF n = 1 THEN unit ELSE units

\* C11: with S = elapsed div 1000, h = S div 3600, m = (S mod 3600) div 60,
\* s = S mod 60, the idle text a poll tick writes ends with the seconds
\* segment, has the hours segment iff h > 0 and the minutes segment iff h > 0
\* or m > 0, each unit word is singular iff its count is 1, and 0, 61000,
\* 3661000 and 7200000 give '0 seconds', '1 minute 1 second',
\* '1 hour 1 minute 1 second' and '2 hours 0 minutes 0 seconds'.
C11_IdleFormat ==
  [][ SomePollTick /\ IsIdleText(statusBarItem') =>
        LET text == statusBarItem'
            n    == Len(text)
            S    == Elapsed \div 1000
            h    == S \div 3600
            m    == (S % 3600) \div 60
            s    == S % 60
        IN  /\ text[n - 1] = s
            /\ text[n] = C11_Word(s, "second", "seconds")
            /\ (C11_Words(text) \cap { "hour", "hours" } # { }) <=> h > 0
            /\ (C11_Words(text) \cap { "minute", "minutes" } # { }) <=> (h > 0 \/ m > 0)
            /\ n = 3 + (IF h > 0 THEN 2 ELSE 0) + (IF h > 0 \/ m > 0 THEN 2 ELSE 0)
            /\ h > 0 => text[2] = h /\ text[3] = C11_Word(h, "hour", "hours")
            /\ (h > 0 \/ m > 0) =>
                  text[n - 3] = m /\ text[n - 2] = C11_Word(m, "minute", "minutes")
            /\ Elapsed = 0 => text = << "Idle for", 0, "seconds" >>
            /\ Elapsed = 61000 => text = << "Idle for", 1, "minute", 1, "second" >>
            /\ Elapsed = 3661000 =>
                  text = << "Idle for", 1, "hour", 1, "minute", 1, "second" >>
            /\ Elapsed = 7200000 =>
                  text = << "Idle for", 2, "hours", 0, "minutes", 0, "seconds" >>
    ]_vars

\* A poll tick has reported 2 hours 0 minutes 0 seconds.
C11_Witness ==
  /\ Loaded
  /\ Elapsed = 7200000
  /\ statusBarItem = << "Idle for", 2, "hours", 0, "minutes", 0, "seconds" >>

\* What the text field is expected to store for the text value.
C12_Expected(value, fallback) ==
  CASE value = << >>           -> fallback
    [] value = << "a", "b", "c" >> -> fallback
    [] value = << "1", "x" >>  -> 1
    [] value = << "-", "1" >>  -> -1

\* C12: for every text typed into the Idle Time Threshold or the Check
\* Interval field, the setting becomes the default (30000, 1000) when the
\* text does not parse as an integer and the parsed integer otherwise; the
\* stored value is never NaN and a save is issued in every case.
C12_TextFields ==
  [][ \A value \in Texts :
        /\ EditIdleThreshold(value) =>
              /\ settings'.idleThreshold \in Int
              /\ settings'.idleThreshold =
                    IF parseInt(value) = NaN THEN 30000 ELSE parseInt(value)[1]
              /\ settings'.idleThreshold = C12_Expected(value, 30000)
              /\ pendingSaves'["return"] = pendingSaves["return"] + 1
        /\ EditCheckInterval(value) =>
              /\ settings'.checkInterval \in Int
              /\ settings'.checkInterval =
                    IF parseInt(value) = NaN THEN 1000 ELSE parseInt(value)[1]
              /\ settings'.checkInterval = C12_Expected(value, 1000)
              /\ pendingSaves'["return"] = pendingSaves["return"] + 1
    ]_vars

\* The stored threshold 1 was replaced by the default by a text that is no
\* integer, and its save is under way.
C12_Witness ==
  /\ Loaded
  /\ checkIdleIntervalId = 1
  /\ pendingSaves["detectActivity"] = 0
  /\ ~settings.includeMouseActivity
  /\ settings.idleThreshold = 30000
  /\ pendingSaves["return"] > 0

\* C13: in every state after loadSettings and any sequence of Idle Time
\* Threshold and Check Interval edits, settings.idleThreshold and
\* settings.checkInterval are positive integers.
C13_PositiveIntegers ==
  Loaded =>
    /\ settings.idleThreshold \in Nat \ { 0 }
    /\ settings.checkInterval \in Nat \ { 0 }

\* onload has just loaded the stored data `data`.
C14_Loads(data) ==
  /\ phase = "loading"
  /\ phase' = "loaded"
  /\ ToString(settings') = ToString(MergedSettings(data))

\* C14: loadSettings replaces every stored field that is absent or of the
\* wrong type by its default: a stored idleThreshold "abc" yields
\* settings.idleThreshold = 30000, and a missing field yields its default.
C14_LoadDefaults ==
  [][ /\ \A data \in StoredData :
           C14_Loads(data) =>
             \A f \in SettingsFields \ DOMAIN data : settings'[f] = DEFAULT_SETTINGS[f]
      /\ \A data \in MalformedData :
           C14_Loads(data) => ToString(settings'.idleThreshold) = ToString(30000)
    ]_vars

\* A poll tick fired now would report Idle.
C15_TickWouldReportIdle == ENABLED (SomePollTick /\ IsIdleText(statusBarItem'))

\* The Idle Time Threshold field is edited.
C15_ThresholdEdit == \E value \in Texts : EditIdleThreshold(value)

\* C15: every poll tick compares elapsed time against the idleThreshold as it
\* was at the most recent detectActivity call: an Idle Time Threshold edit
\* without a restart does not change what the ticks of the session report.
C15_SnapshotThreshold ==
  [][ C15_ThresholdEdit => (C15_TickWouldReportIdle' <=> C15_TickWouldReportIdle) ]_vars

\* C15, amended: every poll tick compares elapsed time against the current
\* settings.idleThreshold: an Idle Time Threshold edit leaves the poll timer
\* as it is (no restart), and from the edit on a tick of that timer reports
\* Idle iff elapsed exceeds the edited threshold, whether or not the save of
\* the edit is still in progress.
C15_LiveThreshold ==
  [][ C15_ThresholdEdit /\ intervals # { } =>
        /\ intervals' = intervals
        /\ checkIdleIntervalId' = checkIdleIntervalId
        /\ pendingSaves'["return"] > 0
        /\ C15_TickWouldReportIdle' <=> Elapsed > settings'.idleThreshold
    ]_vars

\* The threshold was edited to -1 with no restart, the save of the edit is
\* still in progress, and a tick has reported Idle at elapsed 0.
C15_Witness ==
  /\ Loaded
  /\ checkIdleIntervalId = 1
  /\ settings.idleThreshold = -1
  /\ pendingSaves["return"] > 0
  /\ Elapsed = 0
  /\ statusBarItem = IdleText(0)

\* onload runs to its end, detectActivity included.
C16_OnloadStart == \E data \in StoredData : OnloadResume(data)

\* The detectActivity call after the save of an includeMouseActivity change.
C16_Restart == SaveDone("detectActivity")

\* C16: immediately after every detectActivity call, the one of onload and
\* each restart caused by an includeMouseActivity change, the status is
\* 'All caught up!', whatever it was before.
C16_ActiveAfterStart ==
  [][ C16_OnloadStart \/ C16_Restart => IsActiveText(statusBarItem') ]_vars

\* C16, amended: when onload ends the status is 'All caught up!' and
\* lastActivityTime is the load time; a restart caused by an
\* includeMouseActivity change leaves the status text and lastActivityTime as
\* they were, so an Idle status stays Idle across the restart.
C16_StartKeepsStatus ==
  [][ /\ C16_OnloadStart => statusBarItem' = AllCaughtUp /\ lastActivityTime' = now
      /\ C16_Restart =>
            /\ statusBarItem' = statusBarItem
            /\ lastActivityTime' = lastActivityTime
            /\ checkIdleIntervalId' # checkIdleIntervalId
    ]_vars

\* The poll timer has been restarted once and the status reads Idle.
C16_Witness ==
  /\ Loaded
  /\ checkIdleIntervalId = 2
  /\ pendingSaves["detectActivity"] = 0
  /\ settings.idleThreshold = 1
  /\ Elapsed = 2
  /\ IsIdleText(statusBarItem)

\* The listener registration: both listener lists, the timers and the handle.
C17_Registration ==
  << keydownListeners, mousemoveListeners, intervals, checkIdleIntervalId >>

\* An edit of one of the five settings that force no restart, or the end of
\* its save.
C17_PlainEdit ==
  \/ \E value \in Texts : EditIdleThreshold(value)
  \/ \E value \in Texts : EditCheckInterval(value)
  \/ \E value \in TextColors : EditTextColor(value)
  \/ \E value \in BOOLEAN : EditRainbowMode(value)
  \/ \E value \in BOOLEAN : EditTimeFormat24Hour(value)
  \/ SaveDone("return")
  \/ SaveDone("updateStatusBarColor")

\* C17: editing idleThreshold, checkInterval, textColor, rainbowMode or
\* timeFormat24Hour leaves the keydown listener, the mousemove listener, the
\* poll interval handle and lastActivityTime unchanged; the registration is
\* torn down only by an includeMouseActivity change (the detectActivity that
\* follows its save) and by onunload.
C17_EditsKeepRegistration ==
  [][ /\ C17_PlainEdit =>
            /\ C17_Registration' = C17_Registration
            /\ lastActivityTime' = lastActivityTime
      /\ (Loaded /\ C17_Registration' # C17_Registration) =>
            SaveDone("detectActivity") \/ Onunload
    ]_vars

\* All five settings have been edited and the registration is the one that
\* onload made, with its period 1000 and the load time as lastActivityTime.
C17_Witness ==
  /\ Loaded
  /\ settings.idleThreshold = -1
  /\ settings.checkInterval = -1
  /\ settings.textColor = "red"
  /\ settings.rainbowMode
  /\ settings.timeFormat24Hour
  /\ checkIdleIntervalId = 1
  /\ intervals = { [ id |-> 1, period |-> 1000 ] }
  /\ Len(keydownListeners) = 1
  /\ lastActivityTime = 1
  /\ now = 2

\* C18: the hover query showLastActivityTime reports the current
\* lastActivityTime (the time of the last qualifying activity, or the load
\* time), in the chosen time format, and leaves lastActivityTime, the status
\* text, the listeners and the poll timer unchanged.
C18_HoverReadsOnly ==
  [][ ShowLastActivityTime =>
        /\ Len(notice') = 5
        /\ notice'[1] = "You stopped typing at:"
        /\ notice'[2] = IF settings.timeFormat24Hour THEN 0 ELSE 12
        /\ notice'[3] = 0
        /\ notice'[4] = lastActivityTime \div 1000
        /\ notice'[5] = IF settings.timeFormat24Hour THEN "" ELSE "AM"
        /\ lastActivityTime' = lastActivityTime
        /\ statusBarItem' = statusBarItem
        /\ keydownListeners' = keydownListeners
        /\ mousemoveListeners' = mousemoveListeners
        /\ intervals' = intervals
        /\ checkIdleIntervalId' = checkIdleIntervalId
    ]_vars

\* The notice shows second 1 of the last activity, in the 24-hour format,
\* while the clock is at second 2 and the status still reads Idle.
C18_Witness ==
  /\ Loaded
  /\ notice = << "You stopped typing at:", 0, 0, 1, "" >>
  /\ lastActivityTime \div 1000 = 1
  /\ now \div 1000 = 2
  /\ IsIdleText(statusBarItem)

\* C19: whenever no includeMouseActivity change is awaiting its save and the
\* plugin has not been unloaded, the mousemove listener is registered iff
\* settings.includeMouseActivity is true, for any number of overlapping
\* toggles and any order in which their saves complete.
C19_SettledMouseListener ==
  (Loaded /\ pendingSaves["detectActivity"] = 0) =>
    /\ Len(mousemoveListeners) <= 1
    /\ Len(mousemoveListeners) = 1 <=> settings.includeMouseActivity

\* A toggle has completed, the setting is off and the mouse listener that
\* onload registered is gone.
C19_Witness ==
  /\ Loaded
  /\ checkIdleIntervalId = 2
  /\ settings.idleThreshold = 30000
  /\ pendingSaves["detectActivity"] = 0
  /\ ~settings.includeMouseActivity
  /\ mousemoveListeners = << >>

\* C20: no poll tick, keydown handler or mousemove handler can run while
\* statusBarItem is undefined: whenever a listener or a poll timer is
\* registered, onload has already assigned statusBarItem.
C20_HandlersHaveStatusBar ==
  (keydownListeners # << >> \/ mousemoveListeners # << >> \/ intervals # { }) =>
    statusBarItem # NoElement

\* A poll tick of the timer that onload started has written the status text
\* while the mouse listener is registered.
C20_Witness ==
  /\ Loaded
  /\ checkIdleIntervalId = 1
  /\ Len(mousemoveListeners) = 1
  /\ statusBarItem = IdleText(3)
  /\ now = 3

=============================================================================
